---- MODULE Spec2Model ----
(***************************************************************************)
(* Model of src/app.py: the time helpers (time_to_minutes,                 *)
(* minutes_to_time, define_available_slots), the CP-SAT scheduling function *)
(* schedule_tasks, and the "Generate My Schedule" button handler that      *)
(* calls them.                                                             *)
(*                                                                         *)
(* A clock string is a sequence of one-character strings, a task is the    *)
(* tuple <<name, duration, priority>>, a window is <<start, end>> and a    *)
(* schedule entry is <<name, start, end>>, as in the source.               *)
(***************************************************************************)
EXTENDS Integers, Sequences, FiniteSets, TLC

VARIABLES pc, task_data, slots, break_duration, tasks, available_minutes,
          status, result, lines, given, clock, mins

vars == <<pc, task_data, slots, break_duration, tasks, available_minutes,
          status, result, lines, given, clock, mins>>

(***************************************************************************)
(* Bounds of the enumerated inputs.                                        *)
(***************************************************************************)
MaxTasks == 2
MaxSlots == 2
MaxDuration == 2
MaxBreak == 1

(***************************************************************************)
(* Time helpers.                                                           *)
(***************************************************************************)
DigitChars == <<"0", "1", "2", "3", "4", "5", "6", "7", "8", "9">>

Digit == {DigitChars[i] : i \in 1..10}

\* The value of a digit character.
DigitVal(c) == CHOOSE v \in 0..9 : DigitChars[v + 1] = c

\* int() of a string of digits, most significant digit first.
RECURSIVE StrToInt(_)
StrToInt(s) ==
    IF s = <<>> THEN 0
    ELSE 10 * StrToInt(SubSeq(s, 1, Len(s) - 1)) + DigitVal(s[Len(s)])

\* The decimal digits of n >= 0, without padding.
RECURSIVE IntToStr(_)
IntToStr(n) ==
    IF n < 10 THEN <<DigitChars[n + 1]>>
    ELSE IntToStr(n \div 10) \o <<DigitChars[(n % 10) + 1]>>

\* The format specification 02d: at least two digits, padded with zeros.
Format02d(n) == IF n < 10 THEN <<"0">> \o IntToStr(n) ELSE IntToStr(n)

\* The position of the separator of a clock string.
ColonPos(t) == CHOOSE i \in 1..Len(t) : t[i] = ":"

\* datetime.strptime(t, "%H:%M").hour and .minute
StrptimeHour(t) == StrToInt(SubSeq(t, 1, ColonPos(t) - 1))

StrptimeMinute(t) == StrToInt(SubSeq(t, ColonPos(t) + 1, Len(t)))

time_to_minutes(t) == StrptimeHour(t) * 60 + StrptimeMinute(t)

\* A variant that formats the hour of a 12-hour clock.
minutes_to_time_12h(m) == Format02d((m \div 60) % 12) \o <<":">> \o Format02d(m % 60)

minutes_to_time(m) == Format02d(m \div 60) \o <<":">> \o Format02d(m % 60)

define_available_slots(ss) ==
    [i \in 1..Len(ss) |-> <<time_to_minutes(ss[i][1]), time_to_minutes(ss[i][2])>>]

\* The strings "HH:MM" of a 24-hour clock: hour 00..23, minute 00..59.
ValidClockTexts ==
    {<<a, b, ":", c, d>> : a \in {"0", "1", "2"}, b \in Digit,
                           c \in {"0", "1", "2", "3", "4", "5"}, d \in Digit}
    \ {<<"2", b, ":", c, d>> : b \in {"4", "5", "6", "7", "8", "9"},
                                c \in {"0", "1", "2", "3", "4", "5"}, d \in Digit}

(***************************************************************************)
(* schedule_tasks: the constraint model.                                   *)
(***************************************************************************)
\* The upper bound of the start and end variables, 24 * 60.
Horizon == 24 * 60

TaskName(task) == task[1]

TaskDuration(task) == task[2]

TaskPriority(task) == task[3]

\* NewIntVar(0, 24 * 60) for start_var and for end_var.
StartVarDomain(s) == s \in 0..Horizon

EndVarDomain(e) == e \in 0..Horizon

\* NewIntervalVar(start_var, duration, end_var): end = start + duration.
IntervalEnd(s, duration) == s + duration

\* AddNoOverlap on two intervals.
NoOverlap(s1, e1, s2, e2) == e1 <= s2 \/ e2 <= s1

\* all_times: every minute of range(start, end) of every slot.
AllTimes(available_slots) ==
    UNION {available_slots[i][1]..(available_slots[i][2] - 1) :
           i \in 1..Len(available_slots)}

\* AddAllowedAssignments([start_var], [[t] for t in all_times])
AllowedAssignment(s, all_times) == s \in all_times

\* A variant that leaves break_duration out of the constraint.
BreakConstraint_NoBreak(current_end, next_start, brk) == next_start >= current_end

\* A variant that posts no constraint between neighbours.
BreakConstraint_NotPosted(current_end, next_start, brk) == TRUE

\* model.Add(next_start >= current_end + break_duration)
BreakConstraint(current_end, next_start, brk) == next_start >= current_end + brk

\* The constraints on the start s of the k-th task, given the starts p of
\* the tasks before it in task_vars.
StartFits(ts, all_times, brk, p, k, s) ==
    /\ StartVarDomain(s)
    /\ EndVarDomain(IntervalEnd(s, TaskDuration(ts[k])))
    /\ AllowedAssignment(s, all_times)
    /\ \A j \in 1..(k - 1) :
          NoOverlap(p[j], IntervalEnd(p[j], TaskDuration(ts[j])),
                    s, IntervalEnd(s, TaskDuration(ts[k])))
    /\ k > 1 => BreakConstraint(IntervalEnd(p[k - 1], TaskDuration(ts[k - 1])), s, brk)

\* The assignments of starts to the first k tasks that satisfy every
\* constraint among them.
RECURSIVE Assignments(_, _, _, _)
Assignments(ts, all_times, brk, k) ==
    IF k = 0 THEN {<<>>}
    ELSE UNION {{Append(p, s) : s \in {x \in all_times : StartFits(ts, all_times, brk, p, k, x)}} :
                p \in Assignments(ts, all_times, brk, k - 1)}

\* What solver.Solve(model) can assign: every solution of the model.
Solutions(ts, available_slots, brk) ==
    Assignments(ts, AllTimes(available_slots), brk, Len(ts))

(***************************************************************************)
(* schedule_tasks: from the solver's values to the returned list.          *)
(***************************************************************************)
\* schedule.append((name, start, end)) for every name of task_vars.
RawSchedule(ts, sol) ==
    [i \in 1..Len(ts) |-> <<TaskName(ts[i]), sol[i], IntervalEnd(sol[i], TaskDuration(ts[i]))>>]

\* Insert e into a list sorted by start, after the entries that start no later.
RECURSIVE InsertByStart(_, _)
InsertByStart(sorted, e) ==
    IF sorted = <<>> THEN <<e>>
    ELSE IF sorted[Len(sorted)][2] <= e[2] THEN Append(sorted, e)
    ELSE Append(InsertByStart(SubSeq(sorted, 1, Len(sorted) - 1), e), sorted[Len(sorted)])

RECURSIVE SortPrefix(_, _)
SortPrefix(schedule, n) ==
    IF n = 0 THEN <<>>
    ELSE InsertByStart(SortPrefix(schedule, n - 1), schedule[n])

\* schedule.sort(key=lambda x: x[1]): a stable sort by start.
SortByStart(schedule) == SortPrefix(schedule, Len(schedule))

\* A variant that uses the default break of 10 minutes.
BreakEntry_TenMinutes(end, brk) == <<"Break", end, end + 10>>

\* ("Break", end, end + break_duration)
BreakEntry(end, brk) == <<"Break", end, end + brk>>

\* A variant that tests i < len(schedule).
BreakFollows_EveryTask(i, n) == i - 1 < n

\* if i < len(schedule) - 1, for the 0-based index i - 1
BreakFollows(i, n) == i - 1 < n - 1

\* The loop that builds final_schedule, up to the i-th entry of schedule.
RECURSIVE FinalPrefix(_, _, _)
FinalPrefix(schedule, brk, i) ==
    IF i = 0 THEN <<>>
    ELSE FinalPrefix(schedule, brk, i - 1) \o <<schedule[i]>> \o
         (IF BreakFollows(i, Len(schedule)) THEN <<BreakEntry(schedule[i][3], brk)>> ELSE <<>>)

FinalSchedule(ts, brk, sol) ==
    LET schedule == SortByStart(RawSchedule(ts, sol))
    IN  FinalPrefix(schedule, brk, Len(schedule))

UnableToFit == "Unable to fit all tasks. Try reducing durations or adding more time slots."

\* The statuses CpSolver.Solve can report for this model: a solution (OPTIMAL,
\* the model has no objective), a proof that there is none, or the time limit.
SolverStatuses == {"OPTIMAL", "INFEASIBLE", "UNKNOWN"}

NoResult == [kind |-> "none", entries |-> <<>>, message |-> ""]

(***************************************************************************)
(* The inputs of the page: the rows of the task editor, the slot pickers   *)
(* and the break slider.                                                   *)
(***************************************************************************)
\* The name of the i-th row of the editor; the rows have distinct names.
RowNames == <<"Emails", "Study", "Workout", "Lunch", "Call">>

\* The priorities a row can have, 1 being the highest; schedule_tasks
\* unpacks the priority and never reads it.
PriorityLevels == {1, 2}

\* The duration and priority of a row; a row of duration 0 is skipped.
Rows ==
    {<<d, p>> : d \in 0..MaxDuration, p \in PriorityLevels}

\* The tables of n rows: <<name, duration, priority>> per row.
TaskTables(n) ==
    {[i \in 1..n |-> <<RowNames[i], f[i][1], f[i][2]>>] : f \in [1..n -> Rows]}

\* The text a time picker yields through strftime("%H:%M").
T0900 == <<"0", "9", ":", "0", "0">>
T0902 == <<"0", "9", ":", "0", "2">>
T0904 == <<"0", "9", ":", "0", "4">>
T0905 == <<"0", "9", ":", "0", "5">>
T1000 == <<"1", "0", ":", "0", "0">>
T1200 == <<"1", "2", ":", "0", "0">>
T1400 == <<"1", "4", ":", "0", "0">>
T1600 == <<"1", "6", ":", "0", "0">>
T2358 == <<"2", "3", ":", "5", "8">>
T2359 == <<"2", "3", ":", "5", "9">>

\* The slots a user can pick, among them one that ends before it starts and
\* an empty one.
SlotChoices ==
    <<<<T2358, T2359>>, <<T0904, T0905>>, <<T0900, T0902>>,
      <<T0902, T0900>>, <<T0900, T0900>>>>

\* The lists of n different slots.
SlotLists(n) ==
    {[i \in 1..n |-> SlotChoices[f[i]]] :
        f \in {g \in [1..n -> 1..Len(SlotChoices)] :
                  \A i \in 1..(n - 1) : g[i] < g[i + 1]}}

SmallInputs ==
    {[task_data |-> td, slots |-> sl, break_duration |-> b] :
        td \in UNION {TaskTables(n) : n \in 1..MaxTasks},
        sl \in UNION {SlotLists(n) : n \in 1..MaxSlots},
        b \in 0..MaxBreak}

\* The default rows of the editor, one slot 09:00-12:00, break 10.
ScenarioA ==
    [task_data |-> <<<<"Emails", 30, 3>>, <<"Study", 120, 1>>, <<"Workout", 60, 2>>>>,
     slots |-> <<<<T0900, T1200>>>>,
     break_duration |-> 10]

\* Slots 09:00-10:00 and 14:00-16:00 and one task of 90 minutes.
ScenarioC ==
    [task_data |-> <<<<"Study", 90, 1>>>>,
     slots |-> <<<<T0900, T1000>>, <<T1400, T1600>>>>,
     break_duration |-> 10]

Scenarios == {ScenarioA, ScenarioC}

(***************************************************************************)
(* The handler of the "Generate My Schedule" button, step by step.         *)
(***************************************************************************)
\* if name and duration > 0: tasks.append((name, duration, priority))
ValidRow(row) == TaskName(row) # "" /\ TaskDuration(row) > 0

RECURSIVE CollectTasks(_, _)
CollectTasks(td, n) ==
    IF n = 0 THEN <<>>
    ELSE IF ValidRow(td[n]) THEN Append(CollectTasks(td, n - 1), td[n])
    ELSE CollectTasks(td, n - 1)

\* The state when the button is clicked with the inputs in.
Clicked(in) ==
    /\ pc = "clicked"
    /\ task_data = in.task_data
    /\ slots = in.slots
    /\ break_duration = in.break_duration
    /\ tasks = <<>>
    /\ available_minutes = <<>>
    /\ status = "none"
    /\ result = NoResult
    /\ lines = <<>>
    /\ given = [text |-> <<>>, mins |-> -1]
    /\ clock = <<>>
    /\ mins = -1

Init == \E in \in SmallInputs : Clicked(in)

InitScenarios == \E in \in Scenarios : Clicked(in)

\* The loop over the rows; with no valid task the handler warns and stops.
CollectRows ==
    /\ pc = "clicked"
    /\ tasks' = CollectTasks(task_data, Len(task_data))
    /\ pc' = IF tasks' = <<>> THEN "warned" ELSE "slots"
    /\ UNCHANGED <<task_data, slots, break_duration, available_minutes,
                   status, result, lines, given, clock, mins>>

\* available_minutes = define_available_slots(slots)
DefineAvailableSlots ==
    /\ pc = "slots"
    /\ available_minutes' = define_available_slots(slots)
    /\ pc' = "solve"
    /\ UNCHANGED <<task_data, slots, break_duration, tasks,
                   status, result, lines, given, clock, mins>>

\* result = schedule_tasks(tasks, available_minutes, break_duration)
ScheduleTasks ==
    /\ pc = "solve"
    /\ \E sols \in {Solutions(tasks, available_minutes, break_duration)} :
       \E st \in SolverStatuses :
          /\ st = "OPTIMAL" => sols # {}
          /\ st = "INFEASIBLE" => sols = {}
          /\ status' = st
          /\ IF st = "OPTIMAL"
             THEN \E sol \in sols :
                     result' = [kind |-> "schedule",
                                entries |-> FinalSchedule(tasks, break_duration, sol),
                                message |-> ""]
             ELSE result' = [kind |-> "message", entries |-> <<>>,
                             message |-> UnableToFit]
    /\ pc' = "render"
    /\ UNCHANGED <<task_data, slots, break_duration, tasks, available_minutes,
                   lines, given, clock, mins>>

\* st.error(result), or one line per entry with both times formatted.
Render ==
    /\ pc = "render"
    /\ lines' = IF result.kind = "message" THEN <<result.message>>
                ELSE [i \in 1..Len(result.entries) |->
                        <<result.entries[i][1],
                          minutes_to_time(result.entries[i][2]),
                          minutes_to_time(result.entries[i][3])>>]
    /\ pc' = "done"
    /\ UNCHANGED <<task_data, slots, break_duration, tasks, available_minutes,
                   status, result, given, clock, mins>>

Next == CollectRows \/ DefineAvailableSlots \/ ScheduleTasks \/ Render

Spec == Init /\ [][Next]_vars

SpecScenarios == InitScenarios /\ [][Next]_vars

(***************************************************************************)
(* The time helpers on their own: a clock string parsed and formatted      *)
(* back, and a minute of the day formatted and parsed back.                *)
(***************************************************************************)
InitTime ==
    /\ \/ /\ pc = "text"
          /\ \E s \in ValidClockTexts :
                /\ given = [text |-> s, mins |-> -1]
                /\ clock = s
          /\ mins = -1
       \/ /\ pc = "minutes"
          /\ \E m \in 0..(Horizon - 1) :
                /\ given = [text |-> <<>>, mins |-> m]
                /\ mins = m
          /\ clock = <<>>
    /\ task_data = <<>>
    /\ slots = <<>>
    /\ break_duration = 0
    /\ tasks = <<>>
    /\ available_minutes = <<>>
    /\ status = "none"
    /\ result = NoResult
    /\ lines = <<>>

\* mins = time_to_minutes(clock)
ParseClock ==
    /\ pc \in {"text", "formatted"}
    /\ mins' = time_to_minutes(clock)
    /\ pc' = IF pc = "text" THEN "parsed" ELSE "minutes_again"
    /\ UNCHANGED <<task_data, slots, break_duration, tasks, available_minutes,
                   status, result, lines, given, clock>>

\* clock = minutes_to_time(mins)
FormatClock ==
    /\ pc \in {"minutes", "parsed"}
    /\ clock' = minutes_to_time(mins)
    /\ pc' = IF pc = "minutes" THEN "formatted" ELSE "text_again"
    /\ UNCHANGED <<task_data, slots, break_duration, tasks, available_minutes,
                   status, result, lines, given, mins>>

NextTime == ParseClock \/ FormatClock

SpecTime == InitTime /\ [][NextTime]_vars

(***************************************************************************)
(* Properties.                                                             *)
(***************************************************************************)
\* schedule_tasks has returned.
Called == pc \in {"render", "done"}

\* schedule_tasks has returned a schedule.
Returned == Called /\ result.kind = "schedule"

IsTask(e) == e[1] # "Break"

\* The task entries of the returned list, in the order of the list.
TaskEntries == SelectSeq(result.entries, IsTask)

\* The duration of the task called name in the list given to schedule_tasks.
DurationOf(name) ==
    TaskDuration(tasks[CHOOSE i \in 1..Len(tasks) : TaskName(tasks[i]) = name])

Span(w) == w[2] - w[1]

\* C1: every task entry of a returned schedule has start >= 0 and
\* end <= 1440 and lies, with end = start + duration, inside one of the
\* windows given to schedule_tasks; with the windows 09:00-10:00 and
\* 14:00-16:00 and one task of 90 minutes the task lies inside 14:00-16:00.
C1_TasksInsideOneWindow ==
    Returned =>
        \A k \in 1..Len(TaskEntries) :
            LET e == TaskEntries[k]
            IN  /\ e[2] >= 0
                /\ e[3] <= Horizon
                /\ \E i \in 1..Len(available_minutes) :
                      /\ available_minutes[i][1] <= e[2]
                      /\ e[3] = e[2] + DurationOf(e[1])
                      /\ e[3] <= available_minutes[i][2]
                /\ (task_data = ScenarioC.task_data /\ slots = ScenarioC.slots)
                      => (14 * 60 <= e[2] /\ e[3] <= 16 * 60)

\* C2: a single task that is longer than the span of every window given to
\* schedule_tasks gets the failure message, never a schedule.
C2_TooLongTaskIsInfeasible ==
    (/\ Called
     /\ Len(tasks) = 1
     /\ \A i \in 1..Len(available_minutes) :
           TaskDuration(tasks[1]) > Span(available_minutes[i]))
        => result.kind = "message"

\* C3: Emails 30, Study 120, Workout 60, the window 09:00-12:00 and a break
\* of 10 minutes get the failure message.
C3_ScenarioAIsInfeasible ==
    (/\ Called
     /\ task_data = ScenarioA.task_data
     /\ slots = ScenarioA.slots
     /\ break_duration = ScenarioA.break_duration)
        => result.kind = "message"

\* The weight of a priority, 1 being the highest.
PriorityWeight(p) == (Cardinality(PriorityLevels) + 1) - p

\* The objective of an assignment of starts to the tasks.
RECURSIVE ObjectiveUpTo(_, _)
ObjectiveUpTo(sol, n) ==
    IF n = 0 THEN 0
    ELSE ObjectiveUpTo(sol, n - 1)
         + PriorityWeight(TaskPriority(tasks[n])) * (Horizon - sol[n])

Objective(sol) == ObjectiveUpTo(sol, Len(tasks))

\* The start the returned schedule gives to each task of the list.
ReturnedStarts ==
    [i \in 1..Len(tasks) |->
        (CHOOSE e \in {TaskEntries[k] : k \in 1..Len(TaskEntries)} :
            e[1] = TaskName(tasks[i]))[2]]

\* C4: when the solver reports OPTIMAL, no assignment that satisfies the
\* constraints of the model has a larger sum of weight * (1440 - start)
\* than the returned schedule.
C4_ReturnedScheduleIsOptimal ==
    (Returned /\ status = "OPTIMAL") =>
        \A sol \in Solutions(tasks, available_minutes, break_duration) :
            Objective(sol) <= Objective(ReturnedStarts)

\* Of the task entries, j is the next after i by start time.
ConsecutiveByStart(i, j) ==
    /\ i # j
    /\ TaskEntries[i][2] <= TaskEntries[j][2]
    /\ \A k \in 1..Len(TaskEntries) :
          k \in {i, j} \/ TaskEntries[k][2] < TaskEntries[i][2]
                       \/ TaskEntries[k][2] > TaskEntries[j][2]

\* C5: in a returned schedule, two tasks that are consecutive by start time
\* are at least break_duration apart: next.start - current.end >= break_duration.
C5_BreakBetweenConsecutiveTasks ==
    Returned =>
        \A i, j \in 1..Len(TaskEntries) :
            ConsecutiveByStart(i, j) =>
                TaskEntries[j][2] - TaskEntries[i][3] >= break_duration

C5_Witness ==
    /\ Returned
    /\ break_duration >= 1
    /\ \E i, j \in 1..Len(TaskEntries) :
          /\ ConsecutiveByStart(i, j)
          /\ TaskEntries[j][2] - TaskEntries[i][3] = break_duration

\* C6: no two entries of a returned schedule, tasks or breaks, overlap as
\* ranges [start, end): one of them ends at or before the other starts.
C6_NoTwoEntriesOverlap ==
    Returned =>
        \A i, j \in 1..Len(result.entries) :
            i # j => \/ result.entries[i][3] <= result.entries[j][2]
                     \/ result.entries[j][3] <= result.entries[i][2]

C6_Witness ==
    /\ Returned
    /\ break_duration >= 1
    /\ \E k \in 1..(Len(result.entries) - 2) :
          /\ ~IsTask(result.entries[k + 1])
          /\ result.entries[k + 1][3] = result.entries[k + 2][2]

\* C7: schedule_tasks is never called with a window whose start is greater
\* than or equal to its end.
C7_NoSolveOnInvalidWindow ==
    pc = "solve" =>
        \A i \in 1..Len(available_minutes) :
            available_minutes[i][1] < available_minutes[i][2]

\* C8: a valid HH:MM string parsed and formatted back is the same string,
\* and a minute of 0..1439 formatted and parsed back is the same minute.
C8_TimeRoundTrip ==
    /\ pc = "text_again" => clock = given.text
    /\ pc = "minutes_again" => mins = given.mins

C8_Witness ==
    /\ pc = "text_again"
    /\ given.text = <<"2", "3", ":", "0", "9">>
    /\ mins = 23 * 60 + 9

Reordered(ts, perm) == [i \in 1..Len(ts) |-> ts[perm[i]]]

Orders(n) == {f \in [1..n -> 1..n] : \A i, j \in 1..n : i # j => f[i] # f[j]}

\* schedule_tasks can place the list only when it is given in another order.
OnlyPlaceableReordered ==
    /\ Solutions(tasks, available_minutes, break_duration) = {}
    /\ \E perm \in Orders(Len(tasks)) :
          Solutions(Reordered(tasks, perm), available_minutes, break_duration) # {}

C10_RefusedWitness ==
    /\ Called
    /\ OnlyPlaceableReordered
    /\ status = "INFEASIBLE"

====
